---- MODULE Spec2Model ----
(***************************************************************************)
(* A model of the ISP agent: the update manager (pkg/updater), the agent   *)
(* entry points, the telemetry reporter and the hardware identity.         *)
(***************************************************************************)
EXTENDS Integers, Sequences, FiniteSets, TLC

\* ------------------------------------------------------------- bounds
\* The number of blocks an artifact is copied in (io.Copy writes block by block).
Chunks == 2
\* The number of ticks of the 24 h update ticker a run is followed for.
MaxUpdateTicks == 2
\* The number of agent runs that resolve the identity.
MaxHwidCalls == 2
\* The number of ticks of the telemetry ticker a run is followed for.
MaxTelTicks == 2

\* ---------------------------------------------------------- constants
CurrentVersion == "1.0.0"
SAAS_URL == "http://64.23.151.140:8080"
\* Bytes in a megabyte: 1024 * 1024.
MiB == 1048576
\* time.Now(), as a year.
NowYear == 2026
\* Version strings the control plane may publish: older, equal, newer.
Versions == {"0.9.9", "1.0.0", "1.0.1"}

None == "none"
\* The executable, exePath + ".new", exePath + ".backup".
Paths == {"exe", "tmp", "bak"}
\* Three paths and two open handles hold at most five inodes; one more is free.
Inodes == {"i0", "i1", "i2", "i3", "i4", "i5"}
\* The goroutine of main's startup check, and StartUpdateLoop.
Updaters == {"startup", "loop"}

VARIABLES
  prog,       \* the binary that runs: "isp-agent" (main with the updater) or
              \* "cache-agent" (cmd/agent)
  flag,       \* the command line: "run" (no flag), "install" (-install) or
              \* "check-update" (-check-update)
  cu,         \* history of a -check-update run: the lookups made, the response the
              \* last got, what CheckForUpdates returned, and what was printed
  inst,       \* history of an install run: the files it wrote (license.key,
              \* config.json) and whether it reported success
  lic,        \* licenseInfo, once Validate returned it
  val,        \* history: the calls of license.Validate made (n), the response the
              \* last got and what it returned
  mpc,        \* main's position
  tpc,        \* the telemetry reporter's position
  telTicks,   \* ticks of the telemetry ticker consumed
  snap,       \* the snapshot built in this pass (data)
  domains,    \* the top domains still to report in this pass
  top,        \* history: the top-domain reporting of this pass: whether GetTopDomains
              \* was called, whether it failed, and the records sent by domain
  reports,    \* history: passes of sendTelemetry / collectAndSend begun
  collectErr, \* history: the Stats Provider failed in this pass
  sends,      \* history: telemetry.Send calls made in this pass
  firstSend,  \* history: how the first Send of this pass ended
  lastSent,   \* history: the snapshot given to the last Send of this pass
  upc,        \* each update goroutine's position
  chk,        \* what CheckForUpdates returned to it (descriptor, needsUpdate, err)
  fs,         \* directory: path -> inode or None
  data,       \* inode -> its blocks ("" is a block not written)
  mode,       \* inode -> executable bit
  fd,         \* the goroutine's open handle on its temporary file (out)
  off,        \* the handle's file offset, in blocks
  ticks,      \* ticks of the update ticker consumed
  exeErr,     \* os.Executable fails in this process (decided at process start)
  sig,        \* a termination signal is pending for main
  exeBefore,  \* history: the executable's content when DownloadAndInstall was entered
  exeAfter,   \* history: the executable's content when it returned
  ret,        \* history: how the goroutine's last DownloadAndInstall returned
  host,       \* the host's entropy sources: machine-id files, hostname, MAC lookup
  hwidFile,   \* /etc/isp-agent/hwid: whether it exists, and its bytes
  hwRet,      \* what the last hwid.GetOrCreate returned: (hwid, err); history: fresh,
              \* what Generate gave (or would have given) at that call, derived,
              \* whether Generate ran, and file, the identity file the call left
  hwPrev,     \* history: hwRet of the call before the last
  hwCalls     \* GetOrCreate calls made so far

updVars == <<upc, chk, fs, data, mode, fd, off, ticks, exeErr, exeBefore, exeAfter, ret>>
mainVars == <<mpc, sig>>
cfgVars == <<prog, flag, cu, inst, lic, val>>
telVars == <<tpc, telTicks, snap, domains, top, reports, collectErr, sends, firstSend, lastSent>>
hwidVars == <<host, hwidFile, hwRet, hwPrev, hwCalls>>

vars == <<cfgVars, mainVars, updVars, hwidVars, telVars>>

\* ------------------------------------------------------- file system
EmptyFile == [i \in 1 .. Chunks |-> ""]
\* The bytes served at the download URL of version v.
Artifact(v) == [i \in 1 .. Chunks |-> v]
\* The binary the process was started from.
OriginalBinary == Artifact(CurrentVersion)

\* The content at a path, NoFile when no file is there.
NoFile == <<>>
Content(f, d, path) == IF f[path] = None THEN NoFile ELSE d[f[path]]

Referenced(f, h) == {f[p] : p \in Paths} \cup {h[u] : u \in Updaters}
FreeInode(f, h) == CHOOSE i \in Inodes : i \notin Referenced(f, h)
\* An inode no path and no handle refers to is freed by the kernel.
Reclaim(f, h, d) == [i \in Inodes |-> IF i \in Referenced(f, h) THEN d[i] ELSE EmptyFile]
ReclaimMode(f, h, m) == [i \in Inodes |-> IF i \in Referenced(f, h) THEN m[i] ELSE FALSE]

\* os.Rename(src, dst) when it succeeds: dst now names src's inode.
Rename(f, src, dst) == [f EXCEPT ![dst] = f[src], ![src] = None]

\* ---------------------------------------------------- update manager
\* What GET /api/agent/version/latest may produce: no connection, a body that is
\* not the expected JSON, or a decoded APIResponse.
Responses ==
  {[kind |-> k, success |-> FALSE, version |-> ""] : k \in {"neterr", "badjson"}}
  \cup [kind : {"json"}, success : BOOLEAN, version : Versions]

NoCheck == [err |-> FALSE, needsUpdate |-> FALSE, version |-> ""]

\* A -check-update run that has looked nothing up yet.
NoCheckUpdate == [lookups |-> 0, resp |-> None, ret |-> NoCheck, printed |-> None]

\* A comparison by version order: only a newer remote version counts.
NeedsUpdateNewer(remote) == remote \in {"1.0.1"}
\* updater.go:51
NeedsUpdate(remote) == remote # CurrentVersion

\* CheckForUpdates: (descriptor, needsUpdate, err) for a response.
CheckForUpdates(r) ==
  IF r.kind # "json" \/ ~r.success
  THEN [err |-> TRUE, needsUpdate |-> FALSE, version |-> ""]
  ELSE [err |-> FALSE, needsUpdate |-> NeedsUpdate(r.version), version |-> r.version]

Alive == mpc \notin {"exit0", "exit1"}

\* Where a goroutine waits before a check, and where it goes after one.
Waiting(p) == IF p = "startup" THEN "sleep" ELSE "wait"
\* An update loop that returns after its first pass.
RestingDone(p) == "done"
Resting(p) == IF p = "startup" THEN "done" ELSE "wait"

InFlight(p) == upc[p] \notin {"unborn", "sleep", "wait", "done"}

\* DownloadAndInstall returns r to goroutine p; f and d are the files it leaves.
Return(p, r, f, d) ==
  /\ upc' = [upc EXCEPT ![p] = Resting(p)]
  /\ ret' = [ret EXCEPT ![p] = r]
  /\ exeAfter' = [exeAfter EXCEPT ![p] = Content(f, d, "exe")]

\* The 30 s sleep of the startup goroutine ends, or the 24 h ticker fires, and
\* CheckForUpdates sends its request (updater.go:35).
UpdTick(p) ==
  /\ Alive
  /\ upc[p] = Waiting(p)
  /\ p = "loop" => ticks < MaxUpdateTicks
  /\ upc' = [upc EXCEPT ![p] = "check"]
  /\ ticks' = IF p = "loop" THEN ticks + 1 ELSE ticks
  /\ chk' = [chk EXCEPT ![p] = NoCheck]
  /\ exeBefore' = [exeBefore EXCEPT ![p] = NoFile]
  /\ exeAfter' = [exeAfter EXCEPT ![p] = NoFile]
  /\ ret' = [ret EXCEPT ![p] = None]
  /\ UNCHANGED <<cfgVars, telVars, hwidVars, mainVars, fs, data, mode, fd, off, exeErr>>

\* CheckForUpdates returns; the caller skips, or enters DownloadAndInstall, whose
\* first step is os.Executable (updater.go:59).
UpdChecked(p) ==
  \E r \in Responses :
    LET c == CheckForUpdates(r) IN
    /\ Alive
    /\ upc[p] = "check"
    /\ chk' = [chk EXCEPT ![p] = c]
    /\ IF c.err \/ ~c.needsUpdate
       THEN /\ upc' = [upc EXCEPT ![p] = Resting(p)]
            /\ UNCHANGED <<exeBefore, exeAfter, ret>>
       ELSE /\ exeBefore' = [exeBefore EXCEPT ![p] = Content(fs, data, "exe")]
            /\ IF exeErr
               THEN Return(p, "err1", fs, data)
               ELSE /\ upc' = [upc EXCEPT ![p] = "dl_get"]
                    /\ ret' = [ret EXCEPT ![p] = "running"]
                    /\ UNCHANGED exeAfter
    /\ UNCHANGED <<cfgVars, telVars, hwidVars, mainVars, fs, data, mode, fd, off, ticks, exeErr>>

\* http.Get(version.DownloadURL) (updater.go:69).
DlGet(p) ==
  \E ok \in BOOLEAN :
    /\ Alive
    /\ upc[p] = "dl_get"
    /\ IF ok
       THEN /\ upc' = [upc EXCEPT ![p] = "dl_create"]
            /\ UNCHANGED <<exeAfter, ret>>
       ELSE Return(p, "err2", fs, data)
    /\ UNCHANGED <<cfgVars, telVars, hwidVars, mainVars, chk, fs, data, mode, fd, off, ticks, exeErr, exeBefore>>

\* An os.Create without O_TRUNC: a file already at tempFile keeps its blocks.
DlCreateNoTrunc(p) ==
  \E ok \in BOOLEAN :
    /\ Alive
    /\ upc[p] = "dl_create"
    /\ IF ok
       THEN LET fresh == fs["tmp"] = None
                i == IF fresh THEN FreeInode(fs, fd) ELSE fs["tmp"]
            IN /\ fs' = [fs EXCEPT !["tmp"] = i]
               /\ data' = IF fresh THEN [data EXCEPT ![i] = EmptyFile] ELSE data
               /\ mode' = IF fresh THEN [mode EXCEPT ![i] = FALSE] ELSE mode
               /\ fd' = [fd EXCEPT ![p] = i]
               /\ off' = [off EXCEPT ![p] = 0]
               /\ upc' = [upc EXCEPT ![p] = "dl_copy"]
               /\ UNCHANGED <<exeAfter, ret>>
       ELSE /\ Return(p, "err2", fs, data)
            /\ UNCHANGED <<fs, data, mode, fd, off>>
    /\ UNCHANGED <<cfgVars, telVars, hwidVars, mainVars, chk, ticks, exeErr, exeBefore>>

\* os.Create(tempFile): O_CREATE|O_TRUNC (updater.go:75).
DlCreate(p) ==
  \E ok \in BOOLEAN :
    /\ Alive
    /\ upc[p] = "dl_create"
    /\ IF ok
       THEN LET fresh == fs["tmp"] = None
                i == IF fresh THEN FreeInode(fs, fd) ELSE fs["tmp"]
            IN /\ fs' = [fs EXCEPT !["tmp"] = i]
               /\ data' = [data EXCEPT ![i] = EmptyFile]
               /\ mode' = IF fresh THEN [mode EXCEPT ![i] = FALSE] ELSE mode
               /\ fd' = [fd EXCEPT ![p] = i]
               /\ off' = [off EXCEPT ![p] = 0]
               /\ upc' = [upc EXCEPT ![p] = "dl_copy"]
               /\ UNCHANGED <<exeAfter, ret>>
       ELSE /\ Return(p, "err2", fs, data)
            /\ UNCHANGED <<fs, data, mode, fd, off>>
    /\ UNCHANGED <<cfgVars, telVars, hwidVars, mainVars, chk, ticks, exeErr, exeBefore>>

\* io.Copy writes the next block through the handle; after the last one the
\* handle is closed (updater.go:81-86).
DlCopy(p) ==
  /\ Alive
  /\ upc[p] = "dl_copy"
  /\ off[p] < Chunks
  /\ LET last == off[p] + 1 = Chunks
         d == [data EXCEPT ![fd[p]][off[p] + 1] = chk[p].version]
         h == IF last THEN [fd EXCEPT ![p] = None] ELSE fd
     IN /\ fd' = h
        /\ data' = Reclaim(fs, h, d)
        /\ mode' = ReclaimMode(fs, h, mode)
        /\ off' = [off EXCEPT ![p] = IF last THEN 0 ELSE off[p] + 1]
        /\ upc' = [upc EXCEPT ![p] = IF last THEN "dl_chmod" ELSE "dl_copy"]
  /\ UNCHANGED <<cfgVars, telVars, hwidVars, mainVars, chk, fs, ticks, exeErr, exeBefore, exeAfter, ret>>

\* io.Copy fails (the connection breaks, the disk is full); the deferred Close runs.
DlCopyFail(p) ==
  /\ Alive
  /\ upc[p] = "dl_copy"
  /\ LET h == [fd EXCEPT ![p] = None]
         d == Reclaim(fs, h, data)
     IN /\ fd' = h
        /\ data' = d
        /\ mode' = ReclaimMode(fs, h, mode)
        /\ off' = [off EXCEPT ![p] = 0]
        /\ Return(p, "err2", fs, d)
  /\ UNCHANGED <<cfgVars, telVars, hwidVars, mainVars, chk, fs, ticks, exeErr, exeBefore>>

\* os.Chmod(tempFile, 0755) (updater.go:89).
DlChmod(p) ==
  \E ok \in BOOLEAN :
    /\ Alive
    /\ upc[p] = "dl_chmod"
    /\ IF ok /\ fs["tmp"] # None
       THEN /\ mode' = [mode EXCEPT ![fs["tmp"]] = TRUE]
            /\ upc' = [upc EXCEPT ![p] = "dl_backup"]
            /\ UNCHANGED <<exeAfter, ret>>
       ELSE /\ Return(p, "err3", fs, data)
            /\ UNCHANGED mode
    /\ UNCHANGED <<cfgVars, telVars, hwidVars, mainVars, chk, fs, data, fd, off, ticks, exeErr, exeBefore>>

\* os.Rename(exePath, backupFile) (updater.go:95).
DlBackup(p) ==
  \E ok \in BOOLEAN :
    /\ Alive
    /\ upc[p] = "dl_backup"
    /\ IF ok /\ fs["exe"] # None
       THEN LET f == Rename(fs, "exe", "bak")
            IN /\ fs' = f
               /\ data' = Reclaim(f, fd, data)
               /\ mode' = ReclaimMode(f, fd, mode)
               /\ upc' = [upc EXCEPT ![p] = "dl_install"]
               /\ UNCHANGED <<exeAfter, ret>>
       ELSE /\ Return(p, "err4", fs, data)
            /\ UNCHANGED <<fs, data, mode>>
    /\ UNCHANGED <<cfgVars, telVars, hwidVars, mainVars, chk, fd, off, ticks, exeErr, exeBefore>>

\* os.Rename(tempFile, exePath) (updater.go:100).
DlInstall(p) ==
  \E ok \in BOOLEAN :
    /\ Alive
    /\ upc[p] = "dl_install"
    /\ IF ok /\ fs["tmp"] # None
       THEN LET f == Rename(fs, "tmp", "exe")
            IN /\ fs' = f
               /\ data' = Reclaim(f, fd, data)
               /\ mode' = ReclaimMode(f, fd, mode)
               /\ upc' = [upc EXCEPT ![p] = "dl_restart"]
       ELSE /\ upc' = [upc EXCEPT ![p] = "dl_rollback"]
            /\ UNCHANGED <<fs, data, mode>>
    /\ UNCHANGED <<cfgVars, telVars, hwidVars, mainVars, chk, fd, off, ticks, exeErr, exeBefore, exeAfter, ret>>

\* The rollback os.Rename(backupFile, exePath), its error dropped, and the
\* return of the install error (updater.go:102-103).
DlRollback(p) ==
  \E ok \in BOOLEAN :
    /\ Alive
    /\ upc[p] = "dl_rollback"
    /\ LET f == IF ok /\ fs["bak"] # None THEN Rename(fs, "bak", "exe") ELSE fs
           d == Reclaim(f, fd, data)
       IN /\ fs' = f
          /\ data' = d
          /\ mode' = ReclaimMode(f, fd, mode)
          /\ Return(p, "err5", f, d)
    /\ UNCHANGED <<cfgVars, telVars, hwidVars, mainVars, chk, fd, off, ticks, exeErr, exeBefore>>

\* systemctl restart isp-agent (updater.go:111-117): when it takes effect the
\* supervisor sends this process SIGTERM; nil is returned either way.
DlRestart(p) ==
  \E killed \in BOOLEAN :
    /\ Alive
    /\ upc[p] = "dl_restart"
    /\ sig' = (sig \/ killed)
    /\ Return(p, "ok", fs, data)
    /\ UNCHANGED <<cfgVars, telVars, hwidVars, mpc, chk, fs, data, mode, fd, off, ticks, exeErr, exeBefore>>

UpdaterStep(p) ==
  \/ UpdTick(p)
  \/ UpdChecked(p)
  \/ DlGet(p)
  \/ DlCreate(p)
  \/ DlCopy(p)
  \/ DlCopyFail(p)
  \/ DlChmod(p)
  \/ DlBackup(p)
  \/ DlInstall(p)
  \/ DlRollback(p)
  \/ DlRestart(p)

\* ----------------------------------------------------------- shutdown
\* An operator or the supervisor sends SIGINT/SIGTERM once signal.Notify has
\* registered the channel, which has room for one signal.
Signal ==
  /\ mpc \in {"wait", "grace", "c_run"}
  /\ ~sig
  /\ sig' = TRUE
  /\ UNCHANGED <<cfgVars, telVars, hwidVars, mpc, updVars>>

\* <-sigChan (main:172).
MainSignalled ==
  /\ mpc = "wait"
  /\ sig
  /\ mpc' = "grace"
  /\ UNCHANGED <<cfgVars, telVars, hwidVars, sig, updVars>>

\* time.Sleep(2 * time.Second), then main returns and the process ends.
MainExit ==
  /\ mpc = "grace"
  /\ mpc' = "exit0"
  /\ UNCHANGED <<cfgVars, telVars, hwidVars, sig, updVars>>

\* ------------------------------------------------ the update manager alone
\* The state right after main has started both update goroutines (main:139).
InitUpdater ==
  /\ mpc = "wait"
  /\ sig = FALSE
  /\ upc = [p \in Updaters |-> Waiting(p)]
  /\ chk = [p \in Updaters |-> NoCheck]
  /\ fs = [p \in Paths |-> IF p = "exe" THEN "i0" ELSE None]
  /\ data = [i \in Inodes |-> IF i = "i0" THEN OriginalBinary ELSE EmptyFile]
  /\ mode = [i \in Inodes |-> i = "i0"]
  /\ fd = [p \in Updaters |-> None]
  /\ off = [p \in Updaters |-> 0]
  /\ ticks = 0
  /\ exeErr \in BOOLEAN
  /\ exeBefore = [p \in Updaters |-> NoFile]
  /\ exeAfter = [p \in Updaters |-> NoFile]
  /\ ret = [p \in Updaters |-> None]

NextUpdater ==
  \/ \E p \in Updaters : UpdaterStep(p)
  \/ MainSignalled
  \/ MainExit


\* ------------------------------------------------------------- identity
\* A string is a sequence of characters; " " stands for any white space.
RECURSIVE TrimLeft(_)
TrimLeft(s) == IF s # <<>> /\ Head(s) = " " THEN TrimLeft(Tail(s)) ELSE s
RECURSIVE TrimRight(_)
TrimRight(s) ==
  IF s # <<>> /\ s[Len(s)] = " " THEN TrimRight(SubSeq(s, 1, Len(s) - 1)) ELSE s
\* strings.TrimSpace
TrimSpace(s) == TrimRight(TrimLeft(s))

\* A file that cannot be read (readFile returns an error).
Unreadable == <<"<err>">>
\* What the entropy sources may hold. A machine-id file is unreadable or holds an
\* id followed by a newline; the MAC lookup fails, prints nothing, or prints an address.
Hosts ==
  [etc : {Unreadable, <<"m1", " ">>, <<"m2", " ">>},
   dbus : {Unreadable, <<"m3", " ">>},
   hostname : {<<"h1">>},
   mac : {Unreadable, <<" ">>, <<"aa", " ">>}]

\* readFile (hwid:37-43)
ReadFile(f) == IF f = Unreadable THEN [err |-> TRUE, s |-> <<>>] ELSE [err |-> FALSE, s |-> TrimSpace(f)]

\* getMACAddress (hwid:45-59)
GetMACAddress(h) ==
  IF h.mac = Unreadable THEN [err |-> TRUE, s |-> <<>>]
  ELSE IF TrimSpace(h.mac) = <<>> THEN [err |-> FALSE, s |-> <<"00:00:00:00:00:00">>]
  ELSE [err |-> FALSE, s |-> TrimSpace(h.mac)]

\* Generate (hwid:12-35): "ISP-" and the MD5 digest, in hex, of machineID-mac.
\* The digest is kept as the text it is taken of: equal texts, equal digests.
Generate(h) ==
  LET machineID == IF ~ReadFile(h.etc).err THEN ReadFile(h.etc).s
                   ELSE IF ~ReadFile(h.dbus).err THEN ReadFile(h.dbus).s
                   ELSE h.hostname
      mac == IF GetMACAddress(h).err THEN <<"unknown">> ELSE GetMACAddress(h).s
  IN <<"ISP-">> \o machineID \o <<"-">> \o mac

NoHwidFile == [exists |-> FALSE, bytes |-> <<>>]

\* A Load that never finds the stored identity.
LoadNothing(f) == [err |-> TRUE, s |-> <<>>]
\* Load (hwid:67-73)
Load(f) == IF ~f.exists THEN [err |-> TRUE, s |-> <<>>] ELSE [err |-> FALSE, s |-> TrimSpace(f.bytes)]

\* A Save that stores only the product tag of the identity.
SaveTruncated(f, hwid, o) ==
  CASE o = "ok" -> [exists |-> TRUE, bytes |-> SubSeq(hwid, 1, 1)]
    [] o = "noopen" -> f
    [] o = "nowrite" -> [exists |-> TRUE, bytes |-> <<>>]

\* Save (hwid:62-64): os.WriteFile. It writes the bytes, or fails before the
\* file is opened, or fails after the file was created and truncated.
SaveOutcomes == {"ok", "noopen", "nowrite"}
Save(f, hwid, o) ==
  CASE o = "ok" -> [exists |-> TRUE, bytes |-> hwid]
    [] o = "noopen" -> f
    [] o = "nowrite" -> [exists |-> TRUE, bytes |-> <<>>]

\* A GetOrCreate that derives the identity whatever the file holds.
GetOrCreateRederive(f, h, o) ==
  [hwid |-> Generate(h), err |-> o # "ok", derived |-> TRUE, file |-> Save(f, Generate(h), o)]

\* GetOrCreate (hwid:76-98): the value returned, the error, whether Generate ran,
\* and the file left.
GetOrCreate(f, h, o) ==
  IF ~Load(f).err /\ Load(f).s # <<>>
  THEN [hwid |-> Load(f).s, err |-> FALSE, derived |-> FALSE, file |-> f]
  ELSE [hwid |-> Generate(h), err |-> o # "ok", derived |-> TRUE, file |-> Save(f, Generate(h), o)]

\* What a run keeps of its call: the result, and what Generate gives on the host.
Outcome(r, h) ==
  [hwid |-> r.hwid, err |-> r.err, derived |-> r.derived, file |-> r.file, fresh |-> Generate(h)]

\* A run of the agent resolves the identity.
HwidGetOrCreate ==
  \E o \in SaveOutcomes :
    LET r == GetOrCreate(hwidFile, host, o) IN
    /\ hwCalls < MaxHwidCalls
    /\ hwCalls' = hwCalls + 1
    /\ hwRet' = Outcome(r, host)
    /\ hwPrev' = hwRet
    /\ hwidFile' = r.file
    /\ UNCHANGED <<host, cfgVars, telVars, mainVars, updVars>>

\* Between runs the machine-id, the hostname or the network interface changes.
EntropyChanges ==
  /\ \E h \in Hosts : h # host /\ host' = h
  /\ UNCHANGED <<hwidFile, hwRet, hwPrev, hwCalls, cfgVars, telVars, mainVars, updVars>>

\* Between runs the identity file is lost (os.ReadFile of it fails from then on).
HwidFileLost ==
  /\ hwidFile.exists
  /\ hwidFile' = NoHwidFile
  /\ UNCHANGED <<host, hwRet, hwPrev, hwCalls, cfgVars, telVars, mainVars, updVars>>

NoHwid == [hwid |-> <<>>, err |-> FALSE, derived |-> FALSE, file |-> NoHwidFile, fresh |-> <<>>]

InitHwid ==
  /\ host \in Hosts
  /\ hwidFile = NoHwidFile
  /\ hwRet = NoHwid
  /\ hwPrev = NoHwid
  /\ hwCalls = 0

NextHwid == HwidGetOrCreate \/ EntropyChanges \/ HwidFileLost


\* -------------------------------------------------------------- license
Statuses == {"active", "inactive", "expired"}
\* expires_at: three RFC 3339 timestamps, the second the very instant of the call
\* of IsExpired; a date without a time; the empty string.
Expiries ==
  {"2000-01-01T00:00:00Z", "2026-01-01T00:00:00Z", "2999-01-01T00:00:00Z", "2999-01-01", ""}
NoLicense == [status |-> "", expiresAt |-> "", ispID |-> 0]

\* What POST /api/licenses/validate may produce: no connection, a body that does
\* not decode, or a decoded ValidateResponse (success, data, error); a field the
\* body leaves out decodes as its zero value.
LicenseResponses ==
  {[kind |-> k, success |-> FALSE, data |-> NoLicense, error |-> ""] : k \in {"neterr", "badjson"}}
  \cup [kind : {"json"}, success : {FALSE}, data : {NoLicense},
        error : {"", "License not found", "Hardware ID mismatch"}]
  \cup [kind : {"json"}, success : {TRUE},
        data : [status : Statuses, expiresAt : Expiries, ispID : {7}] \cup {NoLicense},
        error : {""}]

\* Validate (license.go:32-58): the record, or an error and its text; reason is
\* what follows "license validation failed: ".
Validate(r) ==
  IF r.kind = "neterr" THEN [err |-> TRUE, info |-> NoLicense, reason |-> "failed to connect to SaaS"]
  ELSE IF r.kind = "badjson" THEN [err |-> TRUE, info |-> NoLicense, reason |-> "failed to parse response"]
  ELSE IF ~r.success THEN [err |-> TRUE, info |-> NoLicense, reason |-> r.error]
  ELSE [err |-> FALSE, info |-> r.data, reason |-> ""]

\* No call of Validate yet.
NoValidate ==
  [called |-> FALSE, n |-> 0, resp |-> [kind |-> "neterr", success |-> FALSE, data |-> NoLicense, error |-> ""],
   ret |-> [err |-> FALSE, info |-> NoLicense, reason |-> ""]]

\* time.Parse(time.RFC3339, s): the instant, named by its year, or an error.
ParseRFC3339(s) ==
  CASE s = "2000-01-01T00:00:00Z" -> [err |-> FALSE, year |-> 2000]
    [] s = "2026-01-01T00:00:00Z" -> [err |-> FALSE, year |-> 2026]
    [] s = "2999-01-01T00:00:00Z" -> [err |-> FALSE, year |-> 2999]
    [] OTHER -> [err |-> TRUE, year |-> 0]

\* An IsExpired that takes a timestamp it cannot parse as not expired.
IsExpiredFailOpen(expiresAt) ==
  IF ParseRFC3339(expiresAt).err THEN FALSE ELSE NowYear > ParseRFC3339(expiresAt).year

\* IsExpired (license.go:61-67): time.Now() is the instant NowYear names.
IsExpired(expiresAt) ==
  IF ParseRFC3339(expiresAt).err THEN TRUE ELSE NowYear > ParseRFC3339(expiresAt).year

\* ------------------------------------------------------- stats provider
\* What nginx.GetCacheStats counts in the logs and the cache directory.
CacheCounts ==
  {[Hits |-> 0, Misses |-> 0, BytesServed |-> 0, CacheSizeUsed |-> 0],
   [Hits |-> 2, Misses |-> 1, BytesServed |-> 2 * MiB, CacheSizeUsed |-> 3 * MiB]}

\* A GetCacheStats that takes the total before the misses are counted.
GetCacheStatsEarlyTotal(c) ==
  [Hits |-> c.Hits, Misses |-> c.Misses, BytesServed |-> c.BytesServed,
   CacheSizeUsed |-> c.CacheSizeUsed, TotalRequests |-> c.Hits]

\* GetCacheStats (stats.go:28-81): the counts, and their sum as TotalRequests.
GetCacheStats(c) ==
  [Hits |-> c.Hits, Misses |-> c.Misses, BytesServed |-> c.BytesServed,
   CacheSizeUsed |-> c.CacheSizeUsed, TotalRequests |-> c.Hits + c.Misses]

\* GetSystemStats (stats.go:226-246)
SystemStats == {[CPUUsage |-> 0, MemoryUsage |-> 0], [CPUUsage |-> 50, MemoryUsage |-> 25]}

\* A call of the Stats Provider as its callers see it: (stats, err). The callers
\* handle an error of either call (main:143-151, cmd/agent main:96-107), and
\* the reporter takes its collector as a parameter (license.go:184), so the
\* error is drawn here although GetCacheStats and GetSystemStats as written
\* (stats.go:81, 245) end in `return stats, nil`.
CacheResults == [err : {FALSE}, stats : CacheCounts] \cup {[err |-> TRUE, stats |-> CHOOSE c \in CacheCounts : c.Hits = 0]}
SystemResults == [err : {FALSE}, stats : SystemStats] \cup {[err |-> TRUE, stats |-> CHOOSE x \in SystemStats : x.CPUUsage = 0]}

\* &TelemetryData{}
ZeroData ==
  [ISPID |-> 0, CacheHits |-> 0, CacheMisses |-> 0, BandwidthSaved |-> 0,
   TotalRequests |-> 0, CacheSizeUsed |-> 0, CPUUsage |-> 0, MemoryUsage |-> 0]

\* The numeric measurement fields of a snapshot are all zero.
ZeroMeasures(d) ==
  /\ d.CacheHits = 0 /\ d.CacheMisses = 0 /\ d.BandwidthSaved = 0 /\ d.TotalRequests = 0
  /\ d.CacheSizeUsed = 0 /\ d.CPUUsage = 0 /\ d.MemoryUsage = 0

\* collectStats, the closure main gives StartTelemetryLoop (main:142-163).
collectStats(c, x, ispID) ==
  IF c.err \/ x.err
  THEN [err |-> TRUE, data |-> ZeroData]
  ELSE [err |-> FALSE,
        data |-> [ISPID |-> ispID,
                  CacheHits |-> GetCacheStats(c.stats).Hits,
                  CacheMisses |-> GetCacheStats(c.stats).Misses,
                  BandwidthSaved |-> GetCacheStats(c.stats).BytesServed \div MiB,
                  TotalRequests |-> GetCacheStats(c.stats).TotalRequests,
                  CacheSizeUsed |-> GetCacheStats(c.stats).CacheSizeUsed \div MiB,
                  CPUUsage |-> x.stats.CPUUsage,
                  MemoryUsage |-> x.stats.MemoryUsage]]

\* ---------------------------------------------------- telemetry reporter
\* The base URL each binary gives the reporter: main passes licenseKey as
\* StartTelemetryLoop's saasURL (main:165); cmd/agent passes config.SaasURL.
LicenseKey == "LIC-KEY-1"
TelemetryURL == IF prog = "isp-agent" THEN LicenseKey ELSE SAAS_URL

\* The reporter's interval in minutes: 5*time.Minute (main:165), and the
\* TelemetryInt of 60 s that installAgent writes (cmd/agent main:190).
TelemetryMinutes == IF prog = "isp-agent" THEN 5 ELSE 1

\* telemetry.Send (license.go:120-141): nil for HTTP 200 or 201, an error for a
\* failed POST or another status. A POST to a URL with no scheme always fails.
SendResults(url) == IF url = SAAS_URL THEN {"200", "201", "500", "neterr"} ELSE {"neterr"}
Send(result) == IF result \in {"200", "201"} THEN "ok" ELSE "err"

\* A reporter that waits for the first tick before its first pass.
LoopEntryAfterTick == "idle"
\* Where both reporters begin: with a pass, before waiting for the ticker
\* (license.go:188-189, cmd/agent main:79-80).
LoopEntry == "collect"

\* What nginx.GetTopDomains (stats.go:259-288) may return: an error, or hit counts
\* by domain.
TopDomains == {"steam.example", "epic.example"}
TopDomainResults == [err : {FALSE}, domains : SUBSET TopDomains] \cup {[err |-> TRUE, domains |-> {}]}

\* No top-domain reporting in this pass yet.
NoTop == [fetched |-> FALSE, err |-> FALSE, sent |-> [d \in TopDomains |-> 0]]

\* A pass begins: the history of the pass before is dropped.
BeginPass ==
  /\ top' = NoTop
  /\ reports' = reports + 1
  /\ sends' = 0
  /\ firstSend' = None
  /\ lastSent' = ZeroData

\* sendTelemetry (license.go:197-205): collectFunc, the zero snapshot on error.
TelCollect ==
  \E c \in CacheResults, x \in SystemResults :
    LET r == collectStats(c, x, lic.ispID)
        d == IF r.err THEN ZeroData ELSE r.data
    IN /\ Alive
       /\ prog = "isp-agent"
       /\ tpc = "collect"
       /\ BeginPass
       /\ collectErr' = r.err
       /\ snap' = [d EXCEPT !.ISPID = lic.ispID]
       /\ tpc' = "send"
       /\ UNCHANGED <<cfgVars, mainVars, updVars, hwidVars, telTicks, domains>>

\* sendTelemetry (license.go:207-209): the first Send.
TelSend ==
  \E res \in SendResults(TelemetryURL) :
    /\ Alive
    /\ prog = "isp-agent"
    /\ tpc = "send"
    /\ sends' = sends + 1
    /\ firstSend' = Send(res)
    /\ lastSent' = snap
    /\ tpc' = IF Send(res) = "ok" THEN "idle" ELSE "sleep"
    /\ UNCHANGED <<cfgVars, mainVars, updVars, hwidVars, telTicks, snap, domains, top, reports, collectErr>>

\* sendTelemetry (license.go:209-210): after the 5 s sleep, the one retry, whose
\* result is dropped.
TelRetry ==
  \E res \in SendResults(TelemetryURL) :
    /\ Alive
    /\ prog = "isp-agent"
    /\ tpc = "sleep"
    /\ sends' = sends + 1
    /\ lastSent' = snap
    /\ tpc' = "idle"
    /\ UNCHANGED <<cfgVars, mainVars, updVars, hwidVars, telTicks, snap, domains, top, reports, collectErr, firstSend>>

\* A reporter whose tick is taken by the goroutine that runs the update loop, so
\* only while no update check or download is in flight.
TelTickSharedLoop ==
  /\ Alive
  /\ prog = "isp-agent"
  /\ tpc = "idle"
  /\ ~InFlight("loop")
  /\ telTicks < MaxTelTicks
  /\ telTicks' = telTicks + 1
  /\ tpc' = "collect"
  /\ UNCHANGED <<cfgVars, mainVars, updVars, hwidVars, snap, domains, top, reports, collectErr, sends, firstSend, lastSent>>

\* StartTelemetryLoop (license.go:191-193): the ticker fires.
TelTick ==
  /\ Alive
  /\ prog = "isp-agent"
  /\ tpc = "idle"
  /\ telTicks < MaxTelTicks
  /\ telTicks' = telTicks + 1
  /\ tpc' = "collect"
  /\ UNCHANGED <<cfgVars, mainVars, updVars, hwidVars, snap, domains, top, reports, collectErr, sends, firstSend, lastSent>>

\* collectAndSend (cmd/agent main:95-123): the cache stats, whose error ends the
\* pass; the system stats, whose error leaves them zero; the snapshot.
CasCollect ==
  \E c \in CacheResults, x \in SystemResults :
    /\ Alive
    /\ prog = "cache-agent"
    /\ tpc = "collect"
    /\ BeginPass
    /\ collectErr' = (c.err \/ x.err)
    /\ IF c.err
       THEN /\ tpc' = "idle"
            /\ snap' = ZeroData
       ELSE /\ tpc' = "send"
            /\ snap' = [ISPID |-> lic.ispID,
                        CacheHits |-> GetCacheStats(c.stats).Hits,
                        CacheMisses |-> GetCacheStats(c.stats).Misses,
                        BandwidthSaved |-> GetCacheStats(c.stats).Hits * 2,
                        TotalRequests |-> GetCacheStats(c.stats).TotalRequests,
                        CacheSizeUsed |-> GetCacheStats(c.stats).CacheSizeUsed,
                        CPUUsage |-> x.stats.CPUUsage,
                        MemoryUsage |-> x.stats.MemoryUsage]
    /\ UNCHANGED <<cfgVars, mainVars, updVars, hwidVars, telTicks, domains>>

\* collectAndSend (cmd/agent main:125-147): the one Send, whose error ends the
\* pass; then GetTopDomains.
CasSend ==
  \E res \in SendResults(TelemetryURL), t \in TopDomainResults :
    /\ Alive
    /\ prog = "cache-agent"
    /\ tpc = "send"
    /\ sends' = sends + 1
    /\ firstSend' = Send(res)
    /\ lastSent' = snap
    /\ top' = IF Send(res) = "ok" THEN [top EXCEPT !.fetched = TRUE, !.err = t.err] ELSE top
    /\ IF Send(res) = "ok" /\ ~t.err /\ t.domains # {}
       THEN /\ tpc' = "sites"
            /\ domains' = t.domains
       ELSE /\ tpc' = "idle"
            /\ domains' = {}
    /\ UNCHANGED <<cfgVars, mainVars, updVars, hwidVars, telTicks, snap, reports, collectErr>>

\* collectAndSend (cmd/agent main:138-146): SendCachedSite for one more domain,
\* in the map's order, its result dropped.
CasSite ==
  \E d \in domains :
    /\ Alive
    /\ prog = "cache-agent"
    /\ tpc = "sites"
    /\ domains' = domains \ {d}
    /\ top' = [top EXCEPT !.sent[d] = @ + 1]
    /\ tpc' = IF domains' = {} THEN "idle" ELSE "sites"
    /\ UNCHANGED <<cfgVars, mainVars, updVars, hwidVars, telTicks, snap, reports, collectErr, sends, firstSend, lastSent>>

\* cmd/agent main:85-86: case <-ticker.C.
CasTick ==
  /\ Alive
  /\ prog = "cache-agent"
  /\ mpc = "c_run"
  /\ tpc = "idle"
  /\ telTicks < MaxTelTicks
  /\ telTicks' = telTicks + 1
  /\ tpc' = "collect"
  /\ UNCHANGED <<cfgVars, mainVars, updVars, hwidVars, snap, domains, top, reports, collectErr, sends, firstSend, lastSent>>

\* cmd/agent main:87-89: case <-stopChan, and main returns.
CasStop ==
  /\ prog = "cache-agent"
  /\ mpc = "c_run"
  /\ tpc = "idle"
  /\ sig
  /\ mpc' = "exit0"
  /\ UNCHANGED <<cfgVars, sig, updVars, hwidVars, telVars>>

\* ------------------------------------------------- main (with the updater)
\* license.LoadConfig (main:67-70).
MainLoadConfig ==
  \E ok \in BOOLEAN :
    /\ prog = "isp-agent"
    /\ mpc = "loadcfg"
    /\ mpc' = IF ok THEN "hwid" ELSE "exit1"
    /\ UNCHANGED <<cfgVars, sig, updVars, hwidVars, telVars>>

\* hwid.GetOrCreate (main:73-76): any error is fatal.
MainHwid ==
  \E o \in SaveOutcomes :
    LET r == GetOrCreate(hwidFile, host, o) IN
    /\ prog = "isp-agent"
    /\ mpc = "hwid"
    /\ hwCalls' = hwCalls + 1
    /\ hwRet' = Outcome(r, host)
    /\ hwPrev' = hwRet
    /\ hwidFile' = r.file
    /\ mpc' = IF r.err THEN "exit1" ELSE "validate"
    /\ UNCHANGED <<cfgVars, sig, updVars, host, telVars>>

\* What an install run has done: nothing yet.
NoInstall == [key |-> FALSE, config |-> FALSE, success |-> FALSE]

\* The installation mode of main (main:79-100): Validate and the status check,
\* then the success messages and os.Exit(0). It writes no file.
MainInstall ==
  \E r \in LicenseResponses :
    /\ prog = "isp-agent"
    /\ flag = "install"
    /\ mpc = "validate"
    /\ lic' = Validate(r).info
    /\ val' = [called |-> TRUE, n |-> val.n + 1, resp |-> r, ret |-> Validate(r)]
    /\ IF Validate(r).err \/ Validate(r).info.status # "active"
       THEN mpc' = "exit1" /\ inst' = inst
       ELSE mpc' = "exit0" /\ inst' = [inst EXCEPT !.success = TRUE]
    /\ UNCHANGED <<prog, flag, cu, sig, updVars, hwidVars, telVars>>

\* -check-update (main:47): updater.CheckForUpdates(SAAS_URL) sends its request.
MainCheckUpdate ==
  /\ prog = "isp-agent"
  /\ flag = "check-update"
  /\ mpc = "cu_check"
  /\ cu' = [cu EXCEPT !.lookups = @ + 1]
  /\ mpc' = "cu_lookup"
  /\ UNCHANGED <<prog, flag, inst, lic, val, sig, updVars, hwidVars, telVars>>

\* A -check-update that fetches what it found: on needsUpdate it writes the
\* artifact over the file at the executable path, as the printed wget would.
MainCheckUpdateReturnsFetching ==
  \E r \in Responses :
    LET c == CheckForUpdates(r) IN
    /\ prog = "isp-agent"
    /\ flag = "check-update"
    /\ mpc = "cu_lookup"
    /\ cu' = [cu EXCEPT !.resp = r, !.ret = c,
                        !.printed = IF c.err THEN "failed"
                                    ELSE IF c.needsUpdate THEN "available" ELSE "latest"]
    /\ mpc' = IF c.err THEN "exit1" ELSE "exit0"
    /\ data' = IF ~c.err /\ c.needsUpdate /\ fs["exe"] # None
               THEN [data EXCEPT ![fs["exe"]] = Artifact(c.version)]
               ELSE data
    /\ UNCHANGED <<prog, flag, inst, lic, val, sig, hwidVars, telVars>>
    /\ UNCHANGED <<upc, chk, fs, mode, fd, off, ticks, exeErr, exeBefore, exeAfter, ret>>

\* -check-update (main:47-63): CheckForUpdates returns; log.Fatalf on its error,
\* else the two version lines, the line for needsUpdate, and os.Exit(0).
MainCheckUpdateReturns ==
  \E r \in Responses :
    LET c == CheckForUpdates(r) IN
    /\ prog = "isp-agent"
    /\ flag = "check-update"
    /\ mpc = "cu_lookup"
    /\ cu' = [cu EXCEPT !.resp = r, !.ret = c,
                        !.printed = IF c.err THEN "failed"
                                    ELSE IF c.needsUpdate THEN "available" ELSE "latest"]
    /\ mpc' = IF c.err THEN "exit1" ELSE "exit0"
    /\ UNCHANGED <<prog, flag, inst, lic, val, sig, updVars, hwidVars, telVars>>

\* license.Validate and the status check (main:108-115).
MainValidate ==
  \E r \in LicenseResponses :
    /\ prog = "isp-agent"
    /\ flag = "run"
    /\ mpc = "validate"
    /\ lic' = Validate(r).info
    /\ val' = [called |-> TRUE, n |-> val.n + 1, resp |-> r, ret |-> Validate(r)]
    /\ mpc' = IF Validate(r).err \/ Validate(r).info.status # "active" THEN "exit1" ELSE "spawn"
    /\ UNCHANGED <<prog, flag, cu, inst, sig, updVars, hwidVars, telVars>>

\* The three go statements (main:120-165).
MainStartLoops ==
  /\ prog = "isp-agent"
  /\ mpc = "spawn"
  /\ upc' = [p \in Updaters |-> Waiting(p)]
  /\ tpc' = LoopEntry
  /\ mpc' = "wait"
  /\ UNCHANGED <<cfgVars, sig, chk, fs, data, mode, fd, off, ticks, exeErr, exeBefore, exeAfter, ret,
                 hwidVars, telTicks, snap, domains, top, reports, collectErr, sends, firstSend, lastSent>>

\* ----------------------------------------------------- main of cmd/agent
\* loadConfig (cmd/agent main:51-53).
CaLoadConfig ==
  \E ok \in BOOLEAN :
    /\ prog = "cache-agent"
    /\ mpc = "c_loadcfg"
    /\ mpc' = IF ok THEN "c_validate" ELSE "exit1"
    /\ UNCHANGED <<cfgVars, sig, updVars, hwidVars, telVars>>

\* license.Validate, license.IsExpired, and the first collectAndSend
\* (cmd/agent main:57-80).
CaValidate ==
  \E r \in LicenseResponses :
    LET ok == ~Validate(r).err /\ ~IsExpired(Validate(r).info.expiresAt) IN
    /\ prog = "cache-agent"
    /\ mpc = "c_validate"
    /\ lic' = Validate(r).info
    /\ val' = [called |-> TRUE, n |-> val.n + 1, resp |-> r, ret |-> Validate(r)]
    /\ mpc' = IF ok THEN "c_run" ELSE "exit1"
    /\ tpc' = IF ok THEN LoopEntry ELSE tpc
    /\ UNCHANGED <<prog, flag, cu, inst, sig, updVars, hwidVars, telTicks, snap, domains, top, reports, collectErr, sends, firstSend, lastSent>>

\* installAgent (cmd/agent main:164-168): hwid.GetOrCreate, whose error is returned.
CaInstallHwid ==
  \E o \in SaveOutcomes :
    LET r == GetOrCreate(hwidFile, host, o) IN
    /\ prog = "cache-agent"
    /\ flag = "install"
    /\ mpc = "c_inst_hwid"
    /\ hwCalls' = hwCalls + 1
    /\ hwRet' = Outcome(r, host)
    /\ hwPrev' = hwRet
    /\ hwidFile' = r.file
    /\ mpc' = IF r.err THEN "exit1" ELSE "c_inst_validate"
    /\ UNCHANGED <<cfgVars, sig, updVars, host, telVars>>

\* installAgent (cmd/agent main:172-177): license.Validate, whose error is returned.
CaInstallValidate ==
  \E r \in LicenseResponses :
    /\ prog = "cache-agent"
    /\ flag = "install"
    /\ mpc = "c_inst_validate"
    /\ lic' = Validate(r).info
    /\ val' = [called |-> TRUE, n |-> val.n + 1, resp |-> r, ret |-> Validate(r)]
    /\ mpc' = IF Validate(r).err THEN "exit1" ELSE "c_inst_save"
    /\ UNCHANGED <<prog, flag, cu, inst, sig, updVars, hwidVars, telVars>>

\* installAgent (cmd/agent main:192-202) and main:43-47: config.json is written,
\* and an error of that returned; license.SaveConfig is called and its error
\* dropped; nil is returned and main logs the success.
CaInstallSave ==
  \E w \in BOOLEAN, k \in BOOLEAN :
    /\ prog = "cache-agent"
    /\ flag = "install"
    /\ mpc = "c_inst_save"
    /\ IF w
       THEN mpc' = "exit0" /\ inst' = [key |-> k, config |-> TRUE, success |-> TRUE]
       ELSE mpc' = "exit1" /\ inst' = inst
    /\ UNCHANGED <<prog, flag, cu, lic, val, sig, updVars, hwidVars, telVars>>

\* ------------------------------------------------------ specifications
\* A host whose identity is not looked at.
SomeHost == CHOOSE h \in Hosts : TRUE
HwidAtRest ==
  /\ host = SomeHost
  /\ hwidFile = NoHwidFile
  /\ hwRet = NoHwid
  /\ hwPrev = NoHwid
  /\ hwCalls = 0

\* The telemetry reporter before it is started.
TelAtRest ==
  /\ tpc = "unborn"
  /\ telTicks = 0
  /\ snap = ZeroData
  /\ domains = {}
  /\ top = NoTop
  /\ reports = 0
  /\ collectErr = FALSE
  /\ sends = 0
  /\ firstSend = None
  /\ lastSent = ZeroData

\* A license that passed both start-up checks.
GoodLicense == [status |-> "active", expiresAt |-> "2999-01-01T00:00:00Z", ispID |-> 7]
\* The history of the Validate that returned the record l.
Validated(l) ==
  [called |-> TRUE, n |-> 1,
   resp |-> [kind |-> "json", success |-> TRUE, data |-> l, error |-> ""],
   ret |-> Validate([kind |-> "json", success |-> TRUE, data |-> l, error |-> ""])]

\* The update manager: both update goroutines, and the shutdown a restart causes.
InitUpdaterSpec ==
  InitUpdater /\ HwidAtRest /\ TelAtRest /\ prog = "isp-agent" /\ flag = "run" /\ cu = NoCheckUpdate /\ inst = NoInstall /\ lic = GoodLicense /\ val = Validated(lic)
SpecUpdater == InitUpdaterSpec /\ [][NextUpdater]_vars

\* The identity manager over several runs of the agent on one host.
InitHwidSpec ==
  /\ InitUpdater /\ exeErr = FALSE
  /\ InitHwid /\ TelAtRest /\ prog = "isp-agent" /\ flag = "run" /\ cu = NoCheckUpdate /\ inst = NoInstall /\ lic = NoLicense /\ val = NoValidate
SpecHwid == InitHwidSpec /\ [][NextHwid]_vars

\* A run of either binary from its start, in steady-state mode. The 24 h ticker of
\* StartUpdateLoop does not fire in the time the run is followed for.
InitAgent ==
  /\ prog \in {"isp-agent", "cache-agent"}
  /\ flag = "run"
  /\ cu = NoCheckUpdate
  /\ inst = NoInstall
  /\ lic = NoLicense
  /\ val = NoValidate
  /\ mpc = IF prog = "isp-agent" THEN "loadcfg" ELSE "c_loadcfg"
  /\ sig = FALSE
  /\ upc = [p \in Updaters |-> "unborn"]
  /\ chk = [p \in Updaters |-> NoCheck]
  /\ fs = [p \in Paths |-> IF p = "exe" THEN "i0" ELSE None]
  /\ data = [i \in Inodes |-> IF i = "i0" THEN OriginalBinary ELSE EmptyFile]
  /\ mode = [i \in Inodes |-> i = "i0"]
  /\ fd = [p \in Updaters |-> None]
  /\ off = [p \in Updaters |-> 0]
  /\ ticks = 0
  /\ exeErr = FALSE
  /\ exeBefore = [p \in Updaters |-> NoFile]
  /\ exeAfter = [p \in Updaters |-> NoFile]
  /\ ret = [p \in Updaters |-> None]
  /\ HwidAtRest
  /\ TelAtRest

NextAgent ==
  \/ MainLoadConfig
  \/ MainHwid
  \/ MainValidate
  \/ MainStartLoops
  \/ Signal
  \/ MainSignalled
  \/ MainExit
  \/ UpdaterStep("startup")
  \/ TelCollect
  \/ TelSend
  \/ TelRetry
  \/ TelTick
  \/ CaLoadConfig
  \/ CaValidate
  \/ CasCollect
  \/ CasSend
  \/ CasSite
  \/ CasTick
  \/ CasStop

SpecAgent == InitAgent /\ [][NextAgent]_vars

\* The steady state of either binary. In the main with the updater the startup
\* goroutine has found the running version current and has returned, and the
\* reporter has made its first pass, whose two Sends failed (TelemetryURL);
\* cmd/agent is about to make its first pass.
InitLoops ==
  /\ prog \in {"isp-agent", "cache-agent"}
  /\ flag = "run"
  /\ cu = NoCheckUpdate
  /\ inst = NoInstall
  /\ lic = GoodLicense
  /\ val = Validated(lic)
  /\ mpc = IF prog = "isp-agent" THEN "wait" ELSE "c_run"
  /\ sig = FALSE
  /\ upc = IF prog = "isp-agent"
           THEN [p \in Updaters |-> IF p = "startup" THEN "done" ELSE Waiting(p)]
           ELSE [p \in Updaters |-> "unborn"]
  /\ chk = IF prog = "isp-agent"
           THEN [p \in Updaters |->
                   IF p = "startup"
                   THEN CheckForUpdates([kind |-> "json", success |-> TRUE, version |-> CurrentVersion])
                   ELSE NoCheck]
           ELSE [p \in Updaters |-> NoCheck]
  /\ fs = [p \in Paths |-> IF p = "exe" THEN "i0" ELSE None]
  /\ data = [i \in Inodes |-> IF i = "i0" THEN OriginalBinary ELSE EmptyFile]
  /\ mode = [i \in Inodes |-> i = "i0"]
  /\ fd = [p \in Updaters |-> None]
  /\ off = [p \in Updaters |-> 0]
  /\ ticks = 0
  /\ exeErr = FALSE
  /\ exeBefore = [p \in Updaters |-> NoFile]
  /\ exeAfter = [p \in Updaters |-> NoFile]
  /\ ret = [p \in Updaters |-> None]
  /\ HwidAtRest
  /\ telTicks = 0
  /\ domains = {}
  /\ top = NoTop
  /\ collectErr = FALSE
  /\ IF prog = "isp-agent"
     THEN /\ tpc = "idle"
          /\ snap = [ZeroData EXCEPT !.ISPID = lic.ispID]
          /\ reports = 1
          /\ sends = 2
          /\ firstSend = "err"
          /\ lastSent = snap
     ELSE /\ tpc = LoopEntry
          /\ snap = ZeroData
          /\ reports = 0
          /\ sends = 0
          /\ firstSend = None
          /\ lastSent = ZeroData

NextLoops ==
  \/ UpdaterStep("loop")
  \/ TelCollect
  \/ TelSend
  \/ TelRetry
  \/ TelTick
  \/ CasCollect
  \/ CasSend
  \/ CasSite
  \/ CasTick
  \/ CasStop
  \/ Signal
  \/ MainSignalled
  \/ MainExit

SpecLoops == InitLoops /\ [][NextLoops]_vars

\* A run of either binary with -install, on any host.
InitInstall ==
  /\ prog \in {"isp-agent", "cache-agent"}
  /\ flag = "install"
  /\ cu = NoCheckUpdate
  /\ inst = NoInstall
  /\ lic = NoLicense
  /\ val = NoValidate
  /\ mpc = IF prog = "isp-agent" THEN "loadcfg" ELSE "c_inst_hwid"
  /\ sig = FALSE
  /\ upc = [p \in Updaters |-> "unborn"]
  /\ chk = [p \in Updaters |-> NoCheck]
  /\ fs = [p \in Paths |-> IF p = "exe" THEN "i0" ELSE None]
  /\ data = [i \in Inodes |-> IF i = "i0" THEN OriginalBinary ELSE EmptyFile]
  /\ mode = [i \in Inodes |-> i = "i0"]
  /\ fd = [p \in Updaters |-> None]
  /\ off = [p \in Updaters |-> 0]
  /\ ticks = 0
  /\ exeErr = FALSE
  /\ exeBefore = [p \in Updaters |-> NoFile]
  /\ exeAfter = [p \in Updaters |-> NoFile]
  /\ ret = [p \in Updaters |-> None]
  /\ InitHwid
  /\ TelAtRest

NextInstall ==
  \/ MainLoadConfig
  \/ MainHwid
  \/ MainInstall
  \/ CaInstallHwid
  \/ CaInstallValidate
  \/ CaInstallSave

SpecInstall == InitInstall /\ [][NextInstall]_vars

\* A run of the main with the updater with -check-update, on any host, on which
\* an earlier update may have left its backup.
InitCheckUpdate ==
  /\ prog = "isp-agent"
  /\ flag = "check-update"
  /\ cu = NoCheckUpdate
  /\ inst = NoInstall
  /\ lic = NoLicense
  /\ val = NoValidate
  /\ mpc = "cu_check"
  /\ sig = FALSE
  /\ upc = [p \in Updaters |-> "unborn"]
  /\ chk = [p \in Updaters |-> NoCheck]
  /\ \E b \in BOOLEAN :
       /\ fs = [p \in Paths |-> IF p = "exe" THEN "i0" ELSE IF p = "bak" /\ b THEN "i1" ELSE None]
       /\ data = [i \in Inodes |-> IF i = "i0" THEN OriginalBinary
                                   ELSE IF i = "i1" /\ b THEN Artifact("0.9.9") ELSE EmptyFile]
       /\ mode = [i \in Inodes |-> i = "i0" \/ (i = "i1" /\ b)]
  /\ fd = [p \in Updaters |-> None]
  /\ off = [p \in Updaters |-> 0]
  /\ ticks = 0
  /\ exeErr = FALSE
  /\ exeBefore = [p \in Updaters |-> NoFile]
  /\ exeAfter = [p \in Updaters |-> NoFile]
  /\ ret = [p \in Updaters |-> None]
  /\ InitHwid
  /\ TelAtRest

NextCheckUpdate ==
  \/ MainCheckUpdate
  \/ MainCheckUpdateReturns

SpecCheckUpdate == InitCheckUpdate /\ [][NextCheckUpdate]_vars

\* ================================================================ claims
Returned == {"ok", "err1", "err2", "err3", "err4", "err5"}

\* C1: when the final rename (temporary artifact -> executable path) fails,
\* DownloadAndInstall returns an error and the file at the executable path is then
\* byte-identical to the file that was there when the call began.
C1_RollbackRestoresExecutable ==
  \A p \in Updaters : ret[p] = "err5" => exeAfter[p] = exeBefore[p]

\* C2: whatever the outcome of DownloadAndInstall, a file exists at the executable
\* path when the call returns.
C2_ExecutableNeverMissing ==
  \A p \in Updaters : ret[p] \in Returned => exeAfter[p] # NoFile

\* C3: a call of DownloadAndInstall that is in steps 1-4 does not change the file
\* at the executable path, except by the successful backup rename that ends step 4;
\* so a call that fails in steps 1-4 leaves that file as it was.
C3_EarlyStepsLeaveExecutable ==
  [][\A p \in Updaters :
       (/\ upc[p] \in {"check", "dl_get", "dl_create", "dl_copy", "dl_chmod", "dl_backup"}
        /\ <<upc[p], off[p]>> # <<upc'[p], off'[p]>>
        /\ upc'[p] # "dl_install")
       => Content(fs', data', "exe") = Content(fs, data, "exe")]_vars

\* C4: the startup update check and the periodic update check are never in flight
\* at the same time.
C4_NoConcurrentUpdateChecks ==
  ~(InFlight("startup") /\ InFlight("loop"))

\* C9: when the version lookup succeeds, needsUpdate is true exactly when the
\* remote version string differs from the running build's, in either direction.
C9_NeedsUpdateIffVersionsDiffer ==
  \A p \in Updaters :
    (~chk[p].err /\ chk[p].version \in Versions)
    => (chk[p].needsUpdate <=> chk[p].version # CurrentVersion)

\* A lookup returned an older version and needsUpdate was true.
C9_Witness ==
  \E p \in Updaters :
    ~chk[p].err /\ chk[p].version = "0.9.9" /\ chk[p].needsUpdate /\ upc[p] = "dl_get"

C5_LicenseGate ==
  (tpc # "unborn" \/ \E p \in Updaters : upc[p] # "unborn")
  => (lic.status = "active" /\ ~IsExpired(lic.expiresAt))

C7_OneRetryExactly ==
  /\ sends <= 2
  /\ (tpc \in {"idle", "sites"} /\ firstSend = "ok") => sends = 1
  /\ (tpc = "idle" /\ firstSend = "err") => sends = 2

\* C8: a started reporter has begun one pass more than timer ticks have elapsed,
\* so the first pass comes before any tick and each tick brings one pass.
C8_FirstPassBeforeAnyTick ==
  tpc # "unborn" => reports = telTicks + (IF tpc = "collect" THEN 0 ELSE 1)

\* With an active, unexpired license the first pass has sent before any tick has
\* elapsed.
C8_Witness ==
  /\ lic = GoodLicense
  /\ telTicks = 0
  /\ reports = 1
  /\ sends >= 1

\* C11: for fixed entropy sources GetOrCreate returns one identity, with or without
\* the file an earlier GetOrCreate wrote on the same sources: a call that follows a
\* call that returned the identity of the present sources returns it again.
C11_IdentityDeterministic ==
  [][(hwCalls' # hwCalls /\ hwCalls >= 1 /\ hwRet.hwid = Generate(host))
     => hwRet'.hwid = hwRet.hwid]_vars

\* The identity file a call had left was lost, and the next call derived the same
\* identity again.
C11_Witness ==
  /\ hwCalls >= 2
  /\ hwPrev.file.exists
  /\ hwPrev.file.bytes = hwPrev.hwid
  /\ hwRet.derived
  /\ hwRet.hwid = hwPrev.hwid
  /\ hwRet.hwid # <<>>

\* C12: a GetOrCreate that follows another with nothing changed in between returns
\* the value the first returned, and when the first left a cache file the second
\* derives nothing: Generate does not run and the file is not written.
C12_GetOrCreateIdempotent ==
  [][(hwCalls' # hwCalls /\ hwCalls >= 1 /\ hwidFile = hwRet.file /\ hwRet.fresh = Generate(host))
     => /\ hwRet'.hwid = hwRet.hwid
        /\ (hwidFile.exists /\ hwidFile.bytes # <<>>) => (~hwRet'.derived /\ hwidFile' = hwidFile)]_vars

\* The first call derived and stored the identity; the second returned it without
\* deriving.
C12_Witness ==
  /\ hwCalls = 2
  /\ hwPrev.derived
  /\ hwPrev.file.bytes = hwPrev.hwid
  /\ ~hwRet.derived
  /\ hwRet.hwid = hwPrev.hwid
  /\ hwRet.fresh = hwPrev.fresh
  /\ hwRet.file = hwPrev.file

\* C13: when a newly derived identity cannot be persisted, GetOrCreate returns the
\* derived identity with the error, and the run goes on with that identity: the
\* error does not end the process.
C13_SaveFailureNotFatal ==
  (hwCalls >= 1 /\ hwRet.derived /\ hwRet.err)
  => (hwRet.hwid = hwRet.fresh /\ hwRet.hwid # <<>> /\ mpc # "exit1")

\* C14: main's start-up steps come in the order: resolve the identity, load the
\* license key, validate the license, start the loops only if the license is
\* valid, wait for the signal. So the key is loaded only once the identity is
\* resolved, and main reaches its wait only with an active, unexpired license and
\* all loops started.
C14_StartupOrder ==
  [][/\ (mpc = "loadcfg" /\ mpc' # mpc) => hwCalls >= 1
     /\ (mpc = "hwid" /\ mpc' = "validate") => hwCalls' >= 1
     /\ (mpc # "wait" /\ mpc' = "wait")
        => /\ lic.status = "active" /\ ~IsExpired(lic.expiresAt)
           /\ tpc' # "unborn" /\ \A p \in Updaters : upc'[p] # "unborn"]_vars

\* C15: once main has received the termination signal (or, in cmd/agent, the signal
\* is ready for main's select) no loop starts a new tick: no ticker of the reporter
\* or of the update manager is consumed, and no update goroutine leaves its wait
\* for a check.
C15_NoTickAfterSignal ==
  [][(mpc = "grace" \/ (mpc = "c_run" /\ sig))
     => /\ telTicks' = telTicks
        /\ ticks' = ticks
        /\ \A p \in Updaters : upc[p] = Waiting(p) => upc'[p] = upc[p]]_vars

\* C16: the reporter and the update loop do not wait for each other: wherever the
\* update loop stands, also inside a network call that never returns, the reporter
\* can take its next tick and each step of its pass, and wherever the reporter
\* stands the update loop can take its next tick and each step of its check and
\* download.
C16_LoopsIndependent ==
  (prog = "isp-agent" /\ Alive)
  => /\ (tpc = "idle" /\ telTicks < MaxTelTicks) => ENABLED TelTick
     /\ tpc = "collect" => ENABLED TelCollect
     /\ tpc = "send" => ENABLED TelSend
     /\ tpc = "sleep" => ENABLED TelRetry
     /\ (upc["loop"] = "wait" /\ ticks < MaxUpdateTicks) => ENABLED UpdTick("loop")
     /\ InFlight("loop") => ENABLED UpdaterStep("loop")

\* The update loop is inside CheckForUpdates' request, and the reporter has taken
\* every tick and finished its passes meanwhile; and the other way round.
C16_Witness ==
  /\ prog = "isp-agent"
  /\ Alive
  /\ upc["loop"] = "check"
  /\ ticks = 1
  /\ telTicks = MaxTelTicks
  /\ tpc = "idle"
  /\ reports = MaxTelTicks + 1

\* C17: a failed collection, a failed Send, a failed update check or a failed
\* DownloadAndInstall ends neither the process nor the loop it happened in: no
\* step of a pass other than a successful install changes main's position or
\* raises a signal, and after the failure the loop is back at its ticker, whose
\* next tick it can take.
C17_FailureAbsorbed ==
  /\ [][((reports' # reports \/ sends' # sends)
         \/ (<<upc'["loop"], off'["loop"]>> # <<upc["loop"], off["loop"]>> /\ ret'["loop"] # "ok"))
        => (mpc' = mpc /\ sig' = sig)]_vars
  /\ []((~InFlight("loop") /\ (chk["loop"].err \/ ret["loop"] \in Returned \ {"ok"}))
        => /\ upc["loop"] = "wait"
           /\ (Alive /\ ticks < MaxUpdateTicks) => ENABLED UpdTick("loop"))
  /\ []((tpc = "idle" /\ (collectErr \/ firstSend = "err") /\ Alive /\ telTicks < MaxTelTicks)
        => IF prog = "isp-agent" THEN ENABLED TelTick ELSE ENABLED CasTick)

\* The update loop's first pass ended in a failed install and a failed rollback,
\* which left no executable, and its second pass is under way; the reporter's pass
\* after a pass whose Sends failed is under way too.
C17_Witness ==
  /\ prog = "isp-agent"
  /\ ticks = 2
  /\ upc["loop"] = "check"
  /\ Content(fs, data, "exe") = NoFile
  /\ telTicks >= 1
  /\ tpc = "send"
  /\ Alive

\* C18: Validate returns a record exactly when the request went through, the body
\* decoded and its success flag was true; otherwise it returns an error and no
\* record, the error of a success = false response carrying the server's reason;
\* and a report of a status other than active is a license error, which ends the
\* start-up.
C18_ValidateErrors ==
  val.called
  => /\ val.ret.err <=> (val.resp.kind # "json" \/ ~val.resp.success)
     /\ val.ret.err => val.ret.info = NoLicense
     /\ ~val.ret.err => val.ret.info = val.resp.data
     /\ (val.resp.kind = "json" /\ ~val.resp.success) => val.ret.reason = val.resp.error
     /\ (val.resp.kind = "json" /\ val.resp.success /\ val.resp.data.status # "active")
        => mpc = "exit1"

\* C19: IsExpired is true for an expiry that is not an RFC 3339 timestamp, the
\* empty string included, and for one that is, exactly when the present instant
\* is after it. cmd/agent stops at start-up exactly when IsExpired is true of the
\* record Validate returned.
C19_IsExpiredFailClosed ==
  (prog = "cache-agent" /\ val.called /\ ~val.ret.err)
  => /\ lic.expiresAt \in {"", "2999-01-01"} => mpc = "exit1"
     /\ lic.expiresAt = "2000-01-01T00:00:00Z" => mpc = "exit1"
     /\ lic.expiresAt \in {"2026-01-01T00:00:00Z", "2999-01-01T00:00:00Z"} => mpc # "exit1"

\* cmd/agent stopped on a record whose expiry is a date without a time.
C19_Witness ==
  /\ prog = "cache-agent"
  /\ val.called
  /\ ~val.ret.err
  /\ lic.expiresAt = "2999-01-01"
  /\ lic.status = "active"
  /\ mpc = "exit1"

\* C20: every snapshot given to Send has TotalRequests = CacheHits + CacheMisses,
\* the zero snapshot of a failed collection included.
C20_TotalIsHitsPlusMisses ==
  sends >= 1 => lastSent.TotalRequests = lastSent.CacheHits + lastSent.CacheMisses

\* A snapshot with hits and misses counted was sent.
C20_Witness ==
  /\ sends >= 1
  /\ ~collectErr
  /\ lastSent.CacheHits = 2
  /\ lastSent.CacheMisses = 1
  /\ lastSent.TotalRequests = 3

\* C21: in every pass the top-domain list is fetched once the primary snapshot's
\* Send was made, each domain is reported at most once, and the top-domain
\* reporting neither changes how the primary Send ended nor is repeated.
C21_TopDomainsBestEffort ==
  /\ [](\A d \in TopDomains : top.sent[d] <= 1)
  /\ []((tpc = "idle" /\ reports >= 1 /\ sends >= 1) => top.fetched)
  /\ [][(top'.sent # top.sent /\ reports' = reports)
        => (firstSend' = firstSend /\ sends' = sends /\ lastSent' = lastSent)]_vars

\* C22: an install run that reports success has written both the license key and
\* the configuration record; an install run starts no reporter and no update
\* goroutine; and one whose Validate returned an error ends in failure.
C22_InstallPersists ==
  /\ inst.success => (inst.key /\ inst.config)
  /\ tpc = "unborn"
  /\ \A p \in Updaters : upc[p] = "unborn"
  /\ (val.called /\ val.ret.err) => (mpc = "exit1" /\ ~inst.success)

\* C23: when DownloadAndInstall returns success, the executable path holds the
\* downloaded artifact and the backup path holds the binary that was at the
\* executable path when the call began; and the backup leaves its path only by
\* the rollback rename.
C23_BackupRetained ==
  [][/\ \A p \in Updaters :
          (ret'[p] = "ok" /\ ret[p] # "ok")
          => /\ Content(fs', data', "exe") = Artifact(chk[p].version)
             /\ Content(fs', data', "bak") = exeBefore[p]
     /\ (fs["bak"] # None /\ fs'["bak"] = None)
        => \E p \in Updaters : upc[p] = "dl_rollback"]_vars

\* C24: every Send of a snapshot goes to the control plane: the reporter's base URL
\* is the one used for license validation and update checks.
C24_TelemetryToControlPlane ==
  sends >= 1 => TelemetryURL = SAAS_URL

\* C25: in steady state the license is validated again every 5 minutes: once two
\* such periods have gone by since start-up, Validate has been called a second time.
C25_LicenseRevalidated ==
  (flag = "run" /\ telTicks * TelemetryMinutes >= 10) => val.n >= 2

\* C26: a temporary file an earlier attempt of the update loop left behind is
\* overwritten from scratch by the next one: os.Create leaves it empty, it does
\* not keep os.Create from succeeding, and what the install rename puts at the
\* executable path is the artifact of the version now downloaded.
C26_LeftoverDisposable ==
  /\ [][/\ (upc["loop"] = "dl_create" /\ upc'["loop"] = "dl_copy")
           => (Content(fs', data', "tmp") = EmptyFile /\ off'["loop"] = 0)
        /\ (upc["loop"] = "dl_install" /\ upc'["loop"] = "dl_restart")
           => Content(fs', data', "exe") = Artifact(chk["loop"].version)]_vars
  /\ []((upc["loop"] = "dl_create" /\ fs["tmp"] # None /\ Alive)
        => ENABLED (DlCreate("loop") /\ upc'["loop"] = "dl_copy"))

\* The second attempt writes into a temporary file that is already executable: the
\* first attempt got past its chmod and left it, and os.Create has emptied it.
C26_Witness ==
  /\ ticks = 2
  /\ upc["loop"] = "dl_copy"
  /\ off["loop"] = 1
  /\ fs["tmp"] # None
  /\ mode[fs["tmp"]]
  /\ Content(fs, data, "tmp") = [i \in 1 .. Chunks |-> IF i = 1 THEN "1.0.1" ELSE ""]

C28_RestartAfterSwap ==
  [][\A p \in Updaters :
       /\ (upc'[p] = "dl_restart" /\ upc[p] # "dl_restart")
          => /\ upc[p] = "dl_install"
             /\ fs["tmp"] # None
             /\ fs'["exe"] = fs["tmp"]
             /\ Content(fs', data', "exe") = Artifact(chk[p].version)
       /\ (ret'[p] = "ok" /\ ret[p] # "ok") <=> (upc[p] = "dl_restart" /\ upc'[p] # "dl_restart")
       /\ (upc[p] = "dl_restart" /\ upc'[p] # "dl_restart")
          => (fs' = fs /\ data' = data /\ mode' = mode /\ upc'[p] = Resting(p))
       /\ (sig' /\ ~sig /\ mpc = "wait" /\ upc' # upc) => upc[p] = "dl_restart" \/ upc'[p] = upc[p]]_vars

\* C29: however the startup check and the update loop interleave, a file at the
\* executable path is the whole original binary or a whole downloaded artifact,
\* and the original binary is at the executable path or at the backup path.
C29_ExecutableWholeUnderOverlap ==
  /\ fs["exe"] # None
     => Content(fs, data, "exe") \in {OriginalBinary} \cup {Artifact(v) : v \in Versions}
  /\ OriginalBinary \in {Content(fs, data, "exe"), Content(fs, data, "bak")}

\* C30: a version the update loop has installed is not installed again: a check
\* that returns the version whose artifact is at the executable path does not enter
\* DownloadAndInstall, and while that artifact is there the original binary kept at
\* the backup path stays there.
C30_NoRepeatInstall ==
  /\ [][(upc["loop"] = "check" /\ upc'["loop"] = "dl_get")
        => Content(fs, data, "exe") # Artifact(chk'["loop"].version)]_vars
  /\ [][(/\ Content(fs, data, "bak") = OriginalBinary
         /\ Content(fs, data, "exe") \in {Artifact(v) : v \in Versions \ {CurrentVersion}})
        => Content(fs', data', "bak") = OriginalBinary]_vars

\* C31: a run with -check-update is read-only: it makes one version lookup,
\* prints the summary for what the lookup returned (the failure when it failed) and
\* exits; no step of it changes a file, validates the license, reads or writes the
\* identity, or starts the reporter or an update goroutine.
C31_CheckUpdateReadOnly ==
  /\ [](/\ cu.lookups <= 1
        /\ val = NoValidate /\ lic = NoLicense /\ inst = NoInstall
        /\ hwCalls = 0
        /\ tpc = "unborn" /\ reports = 0
        /\ \A p \in Updaters : upc[p] = "unborn" /\ ret[p] = None /\ fd[p] = None
        /\ ~Alive => /\ cu.lookups = 1
                     /\ cu.ret = CheckForUpdates(cu.resp)
                     /\ mpc = (IF cu.ret.err THEN "exit1" ELSE "exit0")
                     /\ cu.printed = (IF cu.ret.err THEN "failed"
                                      ELSE IF cu.ret.version # CurrentVersion THEN "available"
                                      ELSE "latest"))
  /\ [][/\ fs' = fs /\ data' = data /\ mode' = mode
        /\ hwidFile' = hwidFile
        /\ cu'.lookups # cu.lookups => mpc = "cu_check"
        /\ mpc = "cu_lookup" => ~Alive']_vars

\* The lookup returned a newer version: the run printed that an update is
\* available and exited 0 with the original binary at the executable path.
C31_Witness ==
  /\ flag = "check-update"
  /\ mpc = "exit0"
  /\ cu.lookups = 1
  /\ cu.ret.version = "1.0.1"
  /\ cu.printed = "available"
  /\ Content(fs, data, "exe") = OriginalBinary

====
